---- MODULE Spec2Model ----
(***************************************************************************)
(* Model of the Telegram file bot of src/simple_bot.py: the upload handler *)
(* handle_file, the Wasabi gateway upload_file, the ProgressTracker        *)
(* callback and the in-memory Database.                                    *)
(*                                                                         *)
(* Three specifications share the variables:                               *)
(*   Spec        the upload pipeline, several attempts interleaved at the  *)
(*               awaits of handle_file;                                    *)
(*   SpecTracker one ProgressTracker driven tick by tick;                  *)
(*   SpecList    Database.save_file / Database.list_user_files.            *)
(***************************************************************************)
EXTENDS Integers, Sequences, FiniteSets, TLC

(***************************************************************************)
(* Bounds of the model.                                                    *)
(***************************************************************************)
MaxAttempts == 2
MaxUsers == 1
MaxTicks == 3
MaxUploadTicks == 1
MaxDt == 3
MaxFiles == 3
MaxLimit == 2
MaxUploaders == 2
StartClock == 10

(***************************************************************************)
(* Byte counts.  Python integers are unbounded and the 4 GiB limit does    *)
(* not fit a 32-bit integer, so a byte count is kept as two limbs:         *)
(* hi * 1024^3 + lo with 0 <= lo < 1024^3.                                 *)
(***************************************************************************)
Base == 1024 * 1024 * 1024

Sz(h, l) == [hi |-> h, lo |-> l]

SzZero == Sz(0, 0)

SzAdd(a, b) ==
    LET s == a.lo + b.lo
    IN  Sz(a.hi + b.hi + (s \div Base), s % Base)

SzGt(a, b) == a.hi > b.hi \/ (a.hi = b.hi /\ a.lo > b.lo)

SzGeq(a, b) == a = b \/ SzGt(a, b)

\* 4 * 1024 * 1024 * 1024 (simple_bot.py line 350)
HardLimit == Sz(4, 0)

\* Declared sizes of the files sent to the handler: a missing size
\* (getattr default 0), the limit itself and one byte more.  Every size
\* from 1 byte to the limit takes the same path through handle_file.
FileSizes == {SzZero, HardLimit, SzAdd(HardLimit, Sz(0, 1))}

\* a small total, and the byte counts a progress tick may carry
SmallSize == Sz(0, 4)

TrackerSizes == {SzZero, SmallSize, HardLimit}

Amounts == {Sz(0, 1), Sz(0, 2), SmallSize, HardLimit}

Attempts == 1..MaxAttempts
Users == 1..MaxUsers
\* message.from_user is None for a message that has no sender (a channel post)
NoUser == 0
Senders == Users \cup {NoUser}

VARIABLES
    \* ---- upload pipeline (handle_file), per attempt
    pc,          \* position of the handle_file invocation
    file_size,   \* declared size of the inbound file
    from_user,   \* message.from_user (NoUser when None)
    file_id,     \* the uuid4 of the attempt was drawn (line 355)
    temp_path,   \* temp_path is set (TRUE) or None (FALSE)
    scratch,     \* the NamedTemporaryFile exists on disk
    called,      \* storage.upload_file was called for the attempt
    transfer,    \* outcome of s3_client.upload_file, "none" before the call
    success,     \* value returned by storage.upload_file: "unset", "True", "False"
    exc,         \* exception caught by `except Exception`, "none" if none
    result,      \* final text of the status message / reply
    files,       \* db.files, in insertion order
    \* ---- one ProgressTracker driven tick by tick
    tracker,     \* fields of the ProgressTracker
    now,         \* time.time()
    emitted,     \* notifications scheduled with asyncio.create_task
    reported,    \* arguments the callback was called with
    raised,      \* exception raised by the last call of the callback
    \* ---- Database queries
    listed,      \* last list_user_files call and what it returned
    \* ---- commands, callbacks and web endpoints
    users,       \* keys of db.users
    seen,        \* the principals whose updates a handler has processed
    resp,        \* the last handler or endpoint call and what it answered
    \* ---- start-up
    env,         \* the configuration items present in the environment
    boot         \* the entry point that ran and what it started

botVars == <<users, seen, resp, env, boot>>

vars == <<pc, file_size, from_user, file_id, temp_path, scratch, called, transfer,
          success, exc, result, files, tracker, now, emitted, reported, raised,
          listed, botVars>>

pipelineVars == <<pc, file_size, from_user, file_id, temp_path, scratch, called,
                  transfer, success, exc, result>>

trackerVars == <<tracker, now, emitted, reported, raised>>

(***************************************************************************)
(* ProgressTracker (simple_bot.py lines 175-224)                           *)
(***************************************************************************)
NoTracker ==
    [live |-> FALSE, total_size |-> SzZero, bytes_transferred |-> SzZero,
     start_time |-> 0, last_update_time |-> 0]

\* ProgressTracker.__init__
NewTracker(total_size, current_time) ==
    [live |-> TRUE, total_size |-> total_size, bytes_transferred |-> SzZero,
     start_time |-> current_time, last_update_time |-> 0]

\* the condition of line 192-193, with bytes_transferred already increased
EmissionDueEveryTick(t, current_time) == TRUE

EmissionDue(t, current_time) ==
    \/ current_time - t.last_update_time > 2
    \/ SzGeq(t.bytes_transferred, t.total_size)

\* percentage = (bytes_transferred / total_size) * 100, kept as the exact
\* ratio num / den; Python raises ZeroDivisionError when total_size is 0
Percentage(t) == [num |-> t.bytes_transferred, den |-> t.total_size]

IsPercent(p, n) ==
    \* p is exactly n percent, for n in {0, 100}
    /\ p.den # SzZero
    /\ IF n = 100 THEN p.num = p.den ELSE p.num = SzZero

\* ProgressTracker.__call__(bytes_amount) at time current_time; schedulable
\* says whether asyncio.create_task finds a running event loop in the
\* calling thread.  Returns the tracker after the call, the exception the
\* call raised ("none" when it returned) and the notification it scheduled.
TrackerCall(t, bytes_amount, current_time, schedulable) ==
    LET t1 == [t EXCEPT !.bytes_transferred = SzAdd(@, bytes_amount)]
    IN  IF ~EmissionDue(t1, current_time)
        THEN [tracker |-> t1, exc |-> "none", notes |-> <<>>]
        ELSE IF t1.total_size = SzZero
        THEN [tracker |-> t1, exc |-> "ZeroDivisionError", notes |-> <<>>]
        ELSE IF ~schedulable
        THEN [tracker |-> t1, exc |-> "RuntimeError", notes |-> <<>>]
        ELSE [tracker |-> [t1 EXCEPT !.last_update_time = current_time],
              exc |-> "none",
              notes |-> <<[time |-> current_time,
                           percentage |-> Percentage(t1),
                           tick |-> 0]>>]

(***************************************************************************)
(* SpecTracker: a tracker is constructed, then called tick by tick; the    *)
(* transfer stops at the first call that raises.                           *)
(***************************************************************************)
Construct(total_size) ==
    /\ ~tracker.live
    /\ raised = "none"
    /\ tracker' = NewTracker(total_size, now)
    /\ UNCHANGED <<now, emitted, reported, raised>>
    /\ UNCHANGED <<pipelineVars, files, listed, botVars>>

Call(bytes_amount, dt, schedulable) ==
    /\ tracker.live
    /\ raised = "none"
    /\ Len(reported) < MaxTicks
    /\ LET r == TrackerCall(tracker, bytes_amount, now + dt, schedulable)
       IN  /\ tracker' = r.tracker
           /\ raised' = r.exc
           /\ emitted' = emitted \o
                 [i \in 1..Len(r.notes) |->
                     [r.notes[i] EXCEPT !.tick = Len(reported) + 1]]
    /\ now' = now + dt
    /\ reported' = Append(reported, bytes_amount)
    /\ UNCHANGED <<pipelineVars, files, listed, botVars>>

InitPipeline ==
    /\ pc = [a \in Attempts |-> "idle"]
    /\ file_size = [a \in Attempts |-> SzZero]
    /\ from_user = [a \in Attempts |-> NoUser]
    /\ file_id = [a \in Attempts |-> FALSE]
    /\ temp_path = [a \in Attempts |-> FALSE]
    /\ scratch = [a \in Attempts |-> FALSE]
    /\ called = [a \in Attempts |-> FALSE]
    /\ transfer = [a \in Attempts |-> "none"]
    /\ success = [a \in Attempts |-> "unset"]
    /\ exc = [a \in Attempts |-> "none"]
    /\ result = [a \in Attempts |-> "none"]

InitTracker ==
    /\ tracker = NoTracker
    /\ now = StartClock
    /\ emitted = <<>>
    /\ reported = <<>>
    /\ raised = "none"

NoListing == [user_id |-> NoUser, limit |-> 0, files |-> <<>>, done |-> FALSE]

\* the configuration read with os.getenv (simple_bot.py lines 44-54,
\* main.py lines 77-81)
ConfigItems ==
    {"API_ID", "API_HASH", "BOT_TOKEN", "WASABI_ACCESS_KEY", "WASABI_SECRET_KEY",
     "WASABI_BUCKET", "WASABI_REGION", "PUBLIC_DOMAIN", "DATABASE_URL"}

NotBooted == [entry |-> "none", db |-> FALSE, bot |-> FALSE, web |-> FALSE]

NoResp ==
    [op |-> "none", kind |-> "none", found |-> FALSE, presign |-> "none",
     ret |-> "none", button |-> "none"]

InitBot ==
    /\ users = {}
    /\ seen = {}
    /\ resp = NoResp

Init ==
    /\ InitPipeline
    /\ InitTracker
    /\ files = <<>>
    /\ listed = NoListing
    /\ InitBot
    /\ env = ConfigItems
    /\ boot = NotBooted

(***************************************************************************)
(* WasabiStorage.upload_file (simple_bot.py lines 97-110)                  *)
(***************************************************************************)
\* One progress tick of a transfer: the byte count handed to the callback,
\* the time since the previous tick, and whether create_task can schedule.
TickInputs == [amount : Amounts, dt : {0, MaxDt}, schedulable : BOOLEAN]

\* the tick sequences of one transfer of the pipeline
TickSeqs == UNION {[1..k -> TickInputs] : k \in 0..MaxUploadTicks}

\* The callback driven over the ticks of one transfer; the transfer stops
\* at the first call that raises.  Returns the exception, "none" if none.
RECURSIVE RunCallback(_, _, _)
RunCallback(t, current_time, ticks) ==
    IF ticks = <<>> THEN "none"
    ELSE LET x == Head(ticks)
             r == TrackerCall(t, x.amount, current_time + x.dt, x.schedulable)
         IN  IF r.exc # "none" THEN r.exc
             ELSE RunCallback(r.tracker, current_time + x.dt, Tail(ticks))

\* What the callback can do to a transfer of a file of each declared size:
\* the exceptions it can raise over the tick sequences, "none" among them
\* when it can return from every tick.  The clock readings are inputs of
\* the transfer; the tracker is built at the start of it.
CallbackOutcomes ==
    [s \in FileSizes |->
        {RunCallback(NewTracker(s, StartClock), StartClock, ticks) : ticks \in TickSeqs}]

\* Outcomes of the boto3 transfer behind s3_client.upload_file:
\*   "ok"           the store accepted the object
\*   "ClientError"  a storage failure raised as botocore ClientError
\*   "StorageError" a storage failure raised as anything else (boto3's
\*                  S3UploadFailedError, botocore's EndpointConnectionError)
TransferOutcomes == {"ok", "ClientError", "StorageError"}

\* the exceptions ProgressTracker.__call__ can raise, "none" for a return
CallbackExcs == {"none", "ZeroDivisionError", "RuntimeError"}

StorageFailures == {"ClientError", "StorageError"}

\* upload_file: the value it returns ("True", "False") and the exception it
\* lets through, given the exception raised by the progress callback during
\* the transfer (which fails the transfer) and the transfer's outcome.
upload_file_catching_all(cb_exc, outcome) ==
    IF outcome = "ok" THEN [ret |-> "True", exc |-> "none", transfer |-> "ok"]
    ELSE [ret |-> "False", exc |-> "none", transfer |-> outcome]

upload_file(cb_exc, outcome) ==
    IF cb_exc # "none"
    THEN [ret |-> "unset", exc |-> cb_exc, transfer |-> "CallbackError"]
    ELSE IF outcome = "ok"
    THEN [ret |-> "True", exc |-> "none", transfer |-> "ok"]
    ELSE IF outcome = "ClientError"
    THEN [ret |-> "False", exc |-> "none", transfer |-> "ClientError"]
    ELSE [ret |-> "unset", exc |-> outcome, transfer |-> outcome]

(***************************************************************************)
(* Database (simple_bot.py lines 136-169)                                  *)
(***************************************************************************)
FileData(id, size, uploader) ==
    [file_id |-> id, wasabi_key |-> id, file_size |-> size, uploader_id |-> uploader]

\* save_file: self.files[file_data["file_id"]] = file_data; a dict keeps a
\* replaced key at its position and appends a new one
save_file(fs, file_data) ==
    IF \E i \in 1..Len(fs) : fs[i].file_id = file_data.file_id
    THEN [i \in 1..Len(fs) |->
             IF fs[i].file_id = file_data.file_id THEN file_data ELSE fs[i]]
    ELSE Append(fs, file_data)

\* get_file: self.files.get(file_id)
HasFile(fs, id) == \E i \in 1..Len(fs) : fs[i].file_id = id

\* list_user_files: the loop of lines 163-169 from position i on, acc being
\* user_files; the length is tested only after a record was appended
RECURSIVE ListLoop(_, _, _, _, _)
ListLoop(fs, i, user_id, limit, acc) ==
    IF i > Len(fs) THEN acc
    ELSE IF fs[i].uploader_id = user_id
    THEN LET acc1 == Append(acc, fs[i])
         IN  IF Len(acc1) >= limit THEN acc1
             ELSE ListLoop(fs, i + 1, user_id, limit, acc1)
    ELSE ListLoop(fs, i + 1, user_id, limit, acc)

list_user_files(fs, user_id, limit) == ListLoop(fs, 1, user_id, limit, <<>>)

(***************************************************************************)
(* handle_file (simple_bot.py lines 335-419), one action per stretch       *)
(* between awaits.  An attempt is one invocation of the handler.           *)
(***************************************************************************)
\* line 350: if file_size > 4 * 1024 * 1024 * 1024
TooLargeInclusive(size) == SzGeq(size, HardLimit)

TooLargeNever(size) == FALSE

TooLarge(size) == SzGt(size, HardLimit)

\* lines 338-358: the size check, then file_id and the status message.
\* Attempts are numbered in the order the handler is invoked.
Receive(a, size, sender) ==
    /\ pc[a] = "idle"
    /\ \A b \in Attempts : b < a => pc[b] # "idle"
    /\ file_size' = [file_size EXCEPT ![a] = size]
    /\ from_user' = [from_user EXCEPT ![a] = sender]
    /\ IF TooLarge(size)
       THEN /\ pc' = [pc EXCEPT ![a] = "done"]
            /\ result' = [result EXCEPT ![a] = "too_large"]
            /\ UNCHANGED file_id
       ELSE /\ pc' = [pc EXCEPT ![a] = "started"]
            /\ file_id' = [file_id EXCEPT ![a] = TRUE]
            /\ UNCHANGED result
    /\ UNCHANGED <<temp_path, scratch, called, transfer, success, exc>>
    /\ UNCHANGED <<files, trackerVars, listed, botVars>>

\* lines 360-363: NamedTemporaryFile(delete=False) creates the scratch file,
\* then the handler awaits message.download
Stage(a) ==
    /\ pc[a] = "started"
    /\ scratch' = [scratch EXCEPT ![a] = TRUE]
    /\ pc' = [pc EXCEPT ![a] = "downloading"]
    /\ UNCHANGED <<file_size, from_user, file_id, temp_path, called, transfer,
                   success, exc, result>>
    /\ UNCHANGED <<files, trackerVars, listed, botVars>>

\* line 363: message.download raises; temp_path is still None and control
\* goes to the except clause, which awaits status_msg.edit_text
DownloadFails(a) ==
    /\ pc[a] = "downloading"
    /\ exc' = [exc EXCEPT ![a] = "DownloadError"]
    /\ pc' = [pc EXCEPT ![a] = "except"]
    /\ UNCHANGED <<file_size, from_user, file_id, temp_path, scratch, called,
                   transfer, success, result>>
    /\ UNCHANGED <<files, trackerVars, listed, botVars>>

\* lines 363-391: the download returns and temp_path is assigned; the
\* tracker is built on the declared size and upload_file runs the whole
\* transfer; on success file_data is built (message.from_user.id raises
\* when from_user is None) and saved.  Nothing in this stretch suspends:
\* upload_file and save_file have no await of their own, so the handler
\* next yields at the status_msg.edit_text of line 406, 413 or 415.
\* line 374: if success (reached only when nothing was raised before it)
ShouldSaveAlways(ret, e) == TRUE

ShouldSave(ret, e) == ret = "True" /\ e = "none"

TransferBody(a, cb, outcome) ==
    /\ cb \in CallbackOutcomes[file_size[a]]
    /\ temp_path' = [temp_path EXCEPT ![a] = TRUE]
    /\ called' = [called EXCEPT ![a] = TRUE]
    /\ LET r == upload_file(cb, outcome)
           e == IF r.exc # "none" THEN r.exc
                ELSE IF r.ret = "True" /\ from_user[a] = NoUser
                THEN "AttributeError" ELSE "none"
       IN  /\ transfer' = [transfer EXCEPT ![a] = r.transfer]
           /\ success' = [success EXCEPT ![a] = r.ret]
           /\ exc' = [exc EXCEPT ![a] = e]
           /\ files' = IF ShouldSave(r.ret, e)
                       THEN save_file(files, FileData(a, file_size[a], from_user[a]))
                       ELSE files
           /\ pc' = [pc EXCEPT ![a] =
                        IF e # "none" THEN "except"
                        ELSE IF r.ret = "True" THEN "saved" ELSE "refused"]
    /\ UNCHANGED <<file_size, from_user, file_id, scratch, result>>
    /\ UNCHANGED <<trackerVars, listed, botVars>>

Transfer(a, cb, outcome) ==
    /\ pc[a] = "downloading"
    /\ TransferBody(a, cb, outcome)

\* lines 417-419: if temp_path and os.path.exists(temp_path): os.unlink
CleanupNever(tp, exists) == exists

Cleanup(tp, exists) == IF tp /\ exists THEN FALSE ELSE exists

\* lines 393-411 (success summary) and line 413 (failure text): the awaited
\* status_msg.edit_text returns and the finally clause ends the handler, or
\* it raises and control goes to the except clause
Reply(a, delivered) ==
    /\ pc[a] \in {"saved", "refused"}
    /\ IF delivered
       THEN /\ result' = [result EXCEPT ![a] =
                             IF pc[a] = "saved" THEN "complete" ELSE "failed"]
            /\ scratch' = [scratch EXCEPT ![a] = Cleanup(temp_path[a], scratch[a])]
            /\ pc' = [pc EXCEPT ![a] = "done"]
            /\ UNCHANGED exc
       ELSE /\ exc' = [exc EXCEPT ![a] = "EditError"]
            /\ pc' = [pc EXCEPT ![a] = "except"]
            /\ UNCHANGED <<result, scratch>>
    /\ UNCHANGED <<file_size, from_user, file_id, temp_path, called, transfer,
                   success>>
    /\ UNCHANGED <<files, trackerVars, listed, botVars>>

\* lines 414-419: except Exception reports the error (if that edit_text
\* raises too, the exception leaves the handler); either way the finally
\* clause runs and the handler is over
Except(a, delivered) ==
    /\ pc[a] = "except"
    /\ result' = [result EXCEPT ![a] = IF delivered THEN "error" ELSE "crashed"]
    /\ scratch' = [scratch EXCEPT ![a] = Cleanup(temp_path[a], scratch[a])]
    /\ pc' = [pc EXCEPT ![a] = "done"]
    /\ UNCHANGED <<file_size, from_user, file_id, temp_path, called, transfer,
                   success, exc>>
    /\ UNCHANGED <<files, trackerVars, listed, botVars>>

Next ==
    \/ \E a \in Attempts, s \in FileSizes, u \in Senders : Receive(a, s, u)
    \/ \E a \in Attempts : Stage(a)
    \/ \E a \in Attempts : DownloadFails(a)
    \/ \E a \in Attempts, cb \in CallbackExcs, o \in TransferOutcomes :
          Transfer(a, cb, o)
    \/ \E a \in Attempts, d \in BOOLEAN : Reply(a, d)
    \/ \E a \in Attempts, d \in BOOLEAN : Except(a, d)

Spec == Init /\ [][Next]_vars

(***************************************************************************)
(* SpecLoop: the pipeline on the event loop.  The handlers are coroutines  *)
(* of one asyncio loop; a handler runs until it awaits something that      *)
(* suspends.  upload_file (lines 97-110) calls s3_client.upload_file       *)
(* directly, without await or executor, so from the call to its return the *)
(* loop's thread is inside the transfer and runs no other handler.         *)
(***************************************************************************)
\* no handler is inside the synchronous s3_client.upload_file call
LoopFree == \A a \in Attempts : pc[a] # "uploading"

\* lines 363-372, 100: the download returns, temp_path is assigned, the
\* tracker is built and s3_client.upload_file is entered
EnterUpload(a) ==
    /\ pc[a] = "downloading"
    /\ temp_path' = [temp_path EXCEPT ![a] = TRUE]
    /\ called' = [called EXCEPT ![a] = TRUE]
    /\ pc' = [pc EXCEPT ![a] = "uploading"]
    /\ UNCHANGED <<file_size, from_user, file_id, scratch, transfer, success,
                   exc, result>>
    /\ UNCHANGED <<files, trackerVars, listed, botVars>>

\* lines 100-110, 374-391: the transfer ends, upload_file returns or raises,
\* and the handler runs on to its next await
FinishUpload(a, cb, outcome) ==
    /\ pc[a] = "uploading"
    /\ TransferBody(a, cb, outcome)

\* what the loop can run for a handler that waits at an await
Resume(a) ==
    /\ LoopFree
    /\ \/ Stage(a)
       \/ DownloadFails(a)
       \/ EnterUpload(a)
       \/ \E d \in BOOLEAN : Reply(a, d)
       \/ \E d \in BOOLEAN : Except(a, d)

NextLoop ==
    \/ LoopFree /\ \E a \in Attempts, s \in FileSizes, u \in Senders : Receive(a, s, u)
    \/ LoopFree /\ \E a \in Attempts : Stage(a)
    \/ LoopFree /\ \E a \in Attempts : DownloadFails(a)
    \/ LoopFree /\ \E a \in Attempts : EnterUpload(a)
    \/ \E a \in Attempts, cb \in CallbackExcs, o \in TransferOutcomes :
          FinishUpload(a, cb, o)
    \/ LoopFree /\ \E a \in Attempts, d \in BOOLEAN : Reply(a, d)
    \/ LoopFree /\ \E a \in Attempts, d \in BOOLEAN : Except(a, d)

SpecLoop == Init /\ [][NextLoop]_vars

(***************************************************************************)
(* SpecList: records are saved under fresh ids and listed by uploader.     *)
(***************************************************************************)
Uploaders == 1..MaxUploaders

SaveAny(uploader, size) ==
    /\ Len(files) < MaxFiles
    /\ files' = save_file(files, FileData(Len(files) + 1, size, uploader))
    /\ UNCHANGED <<pipelineVars, trackerVars, listed, botVars>>

ListFiles(user_id, limit) ==
    /\ listed' = [user_id |-> user_id, limit |-> limit,
                  files |-> list_user_files(files, user_id, limit), done |-> TRUE]
    /\ UNCHANGED <<pipelineVars, trackerVars, files, botVars>>

NextList ==
    \/ \E u \in Uploaders, s \in {SmallSize, HardLimit} : SaveAny(u, s)
    \/ \E u \in Uploaders, l \in 0..MaxLimit : ListFiles(u, l)

SpecList == Init /\ [][NextList]_vars

NextTracker ==
    \/ \E s \in TrackerSizes : Construct(s)
    \/ \E b \in Amounts, dt \in 0..MaxDt, sch \in BOOLEAN : Call(b, dt, sch)

SpecTracker == Init /\ [][NextTracker]_vars

(***************************************************************************)
(* SpecBot: the commands, the callback buttons and the web endpoints over  *)
(* the database.  A principal is the Telegram user an update comes from.   *)
(***************************************************************************)
\* what s3_client.generate_presigned_url does: it returns a URL, raises a
\* botocore ClientError, or raises an error that is not a ClientError
PresignOutcomes == {"url", "ClientError", "BotoCoreError"}

\* generate_presigned_url: only ClientError is caught and turned into None
generate_presigned_url(outcome) ==
    CASE outcome = "url" -> "url"
      [] outcome = "ClientError" -> "None"
      [] OTHER -> "raised"

\* get_mx_player_url: the intent URL if download_url is truthy, else None
get_mx_player_url(outcome) ==
    LET download_url == generate_presigned_url(outcome)
    IN  IF download_url = "raised" THEN "raised"
        ELSE IF download_url # "None" THEN "intent"
        ELSE "None"

\* limit=10 of list_files_command
ListLimit == 10

\* callback_query.message is the bot's own message, so its from_user is the
\* bot, which uploads nothing
BotUser == MaxUploaders + 1

CallbackData == {"upload_help", "list_files", "download_", "mx_"}

FileIds == 1..MaxFiles

Answer(op, kind, found, presign, ret, button) ==
    [op |-> op, kind |-> kind, found |-> found, presign |-> presign,
     ret |-> ret, button |-> button]

ListingKind(user_id) ==
    IF list_user_files(files, user_id, ListLimit) = <<>> THEN "no_files" ELSE "listing"

\* start_command: save_user_info(message.from_user), then the welcome text
StartCommand(u) ==
    /\ users' = IF u = NoUser THEN users ELSE users \cup {u}
    /\ seen' = IF u = NoUser THEN seen ELSE seen \cup {u}
    /\ resp' = Answer("start", "welcome", FALSE, "none", "none", "none")
    /\ UNCHANGED <<pipelineVars, trackerVars, files, listed, env, boot>>

\* list_files_command: message.from_user.id raises on a message without a
\* sender, and the handler answers with the error text
ListCommand(u) ==
    /\ seen' = IF u = NoUser THEN seen ELSE seen \cup {u}
    /\ resp' = Answer("list", IF u = NoUser THEN "error" ELSE ListingKind(u),
                      FALSE, "none", "none", "none")
    /\ UNCHANGED <<pipelineVars, trackerVars, files, listed, users, env, boot>>

\* handle_file run to its success reply for a file sent by u
FileSaved(u, size) ==
    /\ Len(files) < MaxFiles
    /\ files' = save_file(files, FileData(Len(files) + 1, size, u))
    /\ seen' = seen \cup {u}
    /\ resp' = Answer("file", "uploaded", TRUE, "none", "none", "none")
    /\ UNCHANGED <<pipelineVars, trackerVars, listed, users, env, boot>>

\* the download_ and mx_ branches: get_file, the URL, the button, the reply;
\* delivered says whether reply_text went through or raised
LinkAnswer(data, id, outcome, delivered) ==
    LET url == IF data = "download_" THEN generate_presigned_url(outcome)
               ELSE get_mx_player_url(outcome)
    IN  IF ~HasFile(files, id)
        THEN Answer(data, "not_found", FALSE, "none", "none", "none")
        ELSE IF url = "raised"
        THEN Answer(data, "error", TRUE, outcome, url, "none")
        ELSE Answer(data, IF delivered THEN "link" ELSE "error",
                    TRUE, outcome, url, url)

HandleCallback(u, data, id, outcome, delivered) ==
    /\ seen' = seen \cup {u}
    /\ resp' = CASE data = "upload_help" ->
                      Answer(data, "help", FALSE, "none", "none", "none")
                 [] data = "list_files" ->
                      Answer(data, ListingKind(BotUser), FALSE, "none", "none", "none")
                 [] OTHER -> LinkAnswer(data, id, outcome, delivered)
    /\ UNCHANGED <<pipelineVars, trackerVars, files, listed, users, env, boot>>

\* stream_file and player_file: a fixed JSON body echoing file_id
StreamFile(id) ==
    /\ resp' = Answer("stream", "stub", HasFile(files, id), "none", "none", "none")
    /\ UNCHANGED <<pipelineVars, trackerVars, files, listed, users, seen, env, boot>>

PlayerFile(id) ==
    /\ resp' = Answer("player", "stub", HasFile(files, id), "none", "none", "none")
    /\ UNCHANGED <<pipelineVars, trackerVars, files, listed, users, seen, env, boot>>

NextBot ==
    \/ \E u \in Uploaders \cup {NoUser} : StartCommand(u)
    \/ \E u \in Uploaders \cup {NoUser} : ListCommand(u)
    \/ \E u \in Uploaders : FileSaved(u, SmallSize)
    \/ \E u \in Uploaders, data \in CallbackData, id \in FileIds,
          outcome \in PresignOutcomes, delivered \in BOOLEAN :
           HandleCallback(u, data, id, outcome, delivered)
    \/ \E id \in FileIds : StreamFile(id)
    \/ \E id \in FileIds : PlayerFile(id)

SpecBot == Init /\ [][NextBot]_vars

(***************************************************************************)
(* SpecStartup: the two entry points under every set of configuration      *)
(* items.                                                                  *)
(***************************************************************************)
InitStartup ==
    /\ InitPipeline
    /\ InitTracker
    /\ files = <<>>
    /\ listed = NoListing
    /\ InitBot
    /\ env \in SUBSET ConfigItems
    /\ boot = NotBooted

\* required_vars of run_main
RunMainRequired ==
    {"API_ID", "API_HASH", "BOT_TOKEN", "WASABI_ACCESS_KEY", "WASABI_SECRET_KEY",
     "WASABI_BUCKET", "DATABASE_URL"}

\* the all([...]) test of simple_bot.py
ModuleRequired ==
    {"API_ID", "API_HASH", "BOT_TOKEN", "WASABI_ACCESS_KEY", "WASABI_SECRET_KEY",
     "WASABI_BUCKET", "WASABI_REGION"}

\* run_main: return if a required variable is missing, else asyncio.run(main())
RunMain ==
    /\ boot.entry = "none"
    /\ boot' = [boot EXCEPT !.entry = IF RunMainRequired \subseteq env
                                      THEN "run_main" ELSE "run_main_exit"]
    /\ UNCHANGED <<pipelineVars, trackerVars, files, listed, users, seen, resp, env>>

\* main.py main(): await db.connect(); an exception ends main()
DbConnect(ok) ==
    /\ boot.entry = "run_main"
    /\ ~boot.db
    /\ boot' = IF ok THEN [boot EXCEPT !.db = TRUE]
               ELSE [boot EXCEPT !.entry = "run_main_exit"]
    /\ UNCHANGED <<pipelineVars, trackerVars, files, listed, users, seen, resp, env>>

\* main.py main(): bot_process.start()
StartBotProcess ==
    /\ boot.entry = "run_main"
    /\ boot.db
    /\ ~boot.bot
    /\ boot' = [boot EXCEPT !.bot = TRUE]
    /\ UNCHANGED <<pipelineVars, trackerVars, files, listed, users, seen, resp, env>>

\* main.py main(): await server.serve()
Serve ==
    /\ boot.entry = "run_main"
    /\ boot.bot
    /\ ~boot.web
    /\ boot' = [boot EXCEPT !.web = TRUE]
    /\ UNCHANGED <<pipelineVars, trackerVars, files, listed, users, seen, resp, env>>

\* simple_bot.py at import: exit(1) unless every required variable is set
ModuleStart ==
    /\ boot.entry = "none"
    /\ boot' = [boot EXCEPT !.entry = IF ModuleRequired \subseteq env
                                      THEN "simple_bot" ELSE "simple_bot_exit"]
    /\ UNCHANGED <<pipelineVars, trackerVars, files, listed, users, seen, resp, env>>

\* simple_bot.py main(): flask_thread.start()
StartFlask ==
    /\ boot.entry = "simple_bot"
    /\ ~boot.web
    /\ boot' = [boot EXCEPT !.web = TRUE]
    /\ UNCHANGED <<pipelineVars, trackerVars, files, listed, users, seen, resp, env>>

\* simple_bot.py main(): await app.start()
AppStart ==
    /\ boot.entry = "simple_bot"
    /\ boot.web
    /\ ~boot.bot
    /\ boot' = [boot EXCEPT !.bot = TRUE]
    /\ UNCHANGED <<pipelineVars, trackerVars, files, listed, users, seen, resp, env>>

NextStartup ==
    \/ RunMain
    \/ \E ok \in BOOLEAN : DbConnect(ok)
    \/ StartBotProcess
    \/ Serve
    \/ ModuleStart
    \/ StartFlask
    \/ AppStart

SpecStartup == InitStartup /\ [][NextStartup]_vars

(***************************************************************************)
(* Claims                                                                  *)
(***************************************************************************)

\* C1: when a handle_file invocation is over, a record with the attempt's
\* file id is in db.files if and only if the object store accepted the
\* attempt's bytes.
RecordIffAccepted ==
    \A a \in Attempts :
        pc[a] = "done" => (HasFile(files, a) <=> transfer[a] = "ok")

\* C2: an attempt that staged its file and went on to the upload leaves no
\* scratch file behind when handle_file is over, whether the upload
\* succeeded, upload_file returned False, or an exception was raised during
\* the upload or while the record was saved and reported.
ScratchRemovedAfterUpload ==
    \A a \in Attempts : pc[a] = "done" /\ called[a] => ~scratch[a]

\* C2 witness: an attempt whose transfer raised out of upload_file is over
\* and its scratch file is gone.
ScratchRemovedAfterFault ==
    \E a \in Attempts :
        /\ pc[a] = "done" /\ called[a] /\ temp_path[a]
        /\ transfer[a] = "StorageError"
        /\ ~scratch[a]

\* C3: a file whose declared size exceeds 4 GiB is rejected before anything
\* is staged: no scratch file, no file id, no upload call and no record.
OversizeRejectedBeforeStaging ==
    \A a \in Attempts :
        pc[a] # "idle" /\ SzGt(file_size[a], Sz(4, 0)) =>
            /\ pc[a] = "done" /\ result[a] = "too_large"
            /\ ~scratch[a] /\ ~temp_path[a] /\ ~file_id[a] /\ ~called[a]
            /\ transfer[a] = "none"
            /\ ~HasFile(files, a)

\* C3 witness: an oversize file was rejected while another attempt was
\* uploaded and recorded.
OversizeRejected ==
    \E a, b \in Attempts :
        /\ SzGt(file_size[a], Sz(4, 0)) /\ result[a] = "too_large"
        /\ result[b] = "complete"

\* C4 as stated: a declared size of exactly 4 * 1024^3 bytes is rejected,
\* and so is 4 * 1024^3 + 1.
BoundaryRejected ==
    \A a \in Attempts :
        pc[a] # "idle" /\ file_size[a] \in {Sz(4, 0), Sz(4, 1)} =>
            result[a] = "too_large"

\* C4 amended: a declared size of exactly 4 * 1024^3 bytes passes the size
\* check (the attempt gets its file id and is never answered "too large"),
\* and 4 * 1024^3 + 1 is rejected.
BoundaryAllowed ==
    \A a \in Attempts :
        pc[a] # "idle" =>
            /\ file_size[a] = Sz(4, 0) => file_id[a] /\ result[a] # "too_large"
            /\ file_size[a] = Sz(4, 1) => ~file_id[a] /\ result[a] = "too_large"

\* C4 witness: a file of exactly the limit was uploaded and recorded, and
\* one of a byte more was rejected.
BoundaryBothSides ==
    \E a, b \in Attempts :
        /\ file_size[a] = Sz(4, 0) /\ result[a] = "complete" /\ HasFile(files, a)
        /\ file_size[b] = Sz(4, 1) /\ result[b] = "too_large"

\* the transfer was not complete when notification n was emitted
Incomplete(n) == SzGt(n.percentage.den, n.percentage.num)

\* C5: two consecutive notifications of a tracker, the second emitted while
\* transferred < total_size, are at least 2 seconds apart.
EmissionsThrottled ==
    \A i \in 2..Len(emitted) :
        Incomplete(emitted[i]) => emitted[i].time - emitted[i - 1].time >= 2

\* C5 witness: a tick was dropped by the throttle and a later tick, still
\* short of the total, was notified.
ThrottledThenEmitted ==
    /\ Len(emitted) >= 2
    /\ Incomplete(emitted[2])
    /\ emitted[2].tick > emitted[1].tick + 1

\* the byte counts handed to the callback so far never decrease
Cumulative(counts) ==
    \A i \in 1..Len(counts) : \A j \in i..Len(counts) : SzGeq(counts[j], counts[i])

\* C6: when the callback has been handed a non-decreasing sequence of
\* cumulative byte counts that reaches total_size > 0, and returned from
\* every call, the last call emitted a notification of exactly 100 percent.
FinalPercentageIs100 ==
    (/\ tracker.live /\ raised = "none"
     /\ tracker.total_size # SzZero
     /\ reported # <<>>
     /\ Cumulative(reported)
     /\ reported[Len(reported)] = tracker.total_size)
    => /\ emitted # <<>>
       /\ emitted[Len(emitted)].tick = Len(reported)
       /\ IsPercent(emitted[Len(emitted)].percentage, 100)

\* C7: a tracker built with total_size = 0 never divides by zero, and every
\* percentage it emits is 0.
ZeroTotalNoDivision ==
    tracker.live /\ tracker.total_size = SzZero =>
        /\ raised # "ZeroDivisionError"
        /\ \A i \in 1..Len(emitted) : emitted[i].percentage.num = SzZero

\* C8: whenever the underlying transfer failed at the storage level,
\* upload_file returned False and raised nothing.
StorageFailureReturnsFalse ==
    \A a \in Attempts :
        transfer[a] \in StorageFailures =>
            success[a] = "False" /\ exc[a] \notin StorageFailures

\* C9: a progress notification that cannot be scheduled never fails the
\* transfer: no attempt ends in the exception create_task raised.
NotificationFailureHarmless ==
    \A a \in Attempts : exc[a] # "RuntimeError"

\* C10: list_user_files(user_id, limit) returns at most limit records, all
\* of them uploaded by user_id.
ListRespectsLimit ==
    listed.done =>
        /\ Len(listed.files) <= listed.limit
        /\ \A i \in 1..Len(listed.files) : listed.files[i].uploader_id = listed.user_id

\* C11: an attempt whose upload succeeded (upload_file returned True) has
\* exactly one record under its file id, with the declared size and the
\* key the bytes were uploaded under.
RecordForEverySuccess ==
    \A a \in Attempts :
        success[a] = "True" =>
            /\ Cardinality({i \in 1..Len(files) : files[i].file_id = a}) = 1
            /\ \A i \in 1..Len(files) :
                  files[i].file_id = a =>
                      files[i].file_size = file_size[a] /\ files[i].wasabi_key = a

\* C17: an attempt whose download raised ends with its scratch file removed,
\* no upload call, no record, and the failure reported.
StagingFailureCleansUp ==
    \A a \in Attempts :
        pc[a] = "done" /\ exc[a] = "DownloadError" =>
            /\ ~scratch[a]
            /\ ~called[a] /\ transfer[a] = "none"
            /\ ~HasFile(files, a)
            /\ result[a] \in {"error", "crashed"}

\* every byte count handed to the callback is a cumulative count of the
\* transfer, so none exceeds total_size
WithinTotal(counts, total) ==
    \A i \in 1..Len(counts) : SzGeq(total, counts[i])

\* C18: for cumulative counts reported in any order, the percentages the
\* tracker emits never decrease and never exceed 100.
PercentagesMonotoneCapped ==
    tracker.live /\ WithinTotal(reported, tracker.total_size) =>
        /\ \A i \in 1..Len(emitted) :
              SzGeq(emitted[i].percentage.den, emitted[i].percentage.num)
        /\ \A i \in 2..Len(emitted) :
              SzGeq(emitted[i].percentage.num, emitted[i - 1].percentage.num)

\* the handler of attempt a waits at an await
Waiting(a) == pc[a] \in {"started", "downloading", "saved", "refused", "except"}

\* C12: while one attempt is in its upload step, every other attempt that
\* waits at an await can still be resumed.
UploadDoesNotBlock ==
    \A a, b \in Attempts :
        pc[a] = "uploading" /\ b # a /\ Waiting(b) => ENABLED Resume(b)

\* the moves of one attempt through the pipeline: Received ("started"),
\* Staged ("uploading" entered with temp_path set), Persisted ("saved"),
\* Failed ("refused", or "except" after the upload), StagingFailed ("except"
\* from "downloading"), and the size rejection ("idle" to "done")
PipelineMoves ==
    {<<"idle", "started">>, <<"idle", "done">>, <<"started", "downloading">>,
     <<"downloading", "uploading">>, <<"downloading", "except">>,
     <<"uploading", "saved">>, <<"uploading", "refused">>, <<"uploading", "except">>,
     <<"saved", "done">>, <<"saved", "except">>,
     <<"refused", "done">>, <<"refused", "except">>, <<"except", "done">>}

RecordOf(fs, a) == {fs[i] : i \in {j \in 1..Len(fs) : fs[j].file_id = a}}

PipelineOrderInv ==
    \A a \in Attempts :
        /\ pc[a] = "uploading" => called[a] /\ scratch[a]
        /\ called[a] => temp_path[a]
        /\ HasFile(files, a) => called[a] /\ success[a] = "True"

PipelineOrderStep ==
    \A a \in Attempts :
        /\ pc'[a] # pc[a] => <<pc[a], pc'[a]>> \in PipelineMoves
        /\ called'[a] /\ ~called[a] => pc[a] = "downloading" /\ pc'[a] = "uploading"
        /\ RecordOf(files', a) # RecordOf(files, a) =>
              pc[a] = "uploading" /\ pc'[a] = "saved"
        /\ pc[a] \in {"saved", "refused", "except", "done"} =>
              /\ called'[a] = called[a] /\ transfer'[a] = transfer[a]
              /\ success'[a] = success[a]
        /\ pc[a] = "done" =>
              /\ pc'[a] = "done" /\ result'[a] = result[a]
              /\ scratch'[a] = scratch[a]

PresignFailureReturnsNone ==
    resp.presign \in PresignOutcomes \ {"url"} => resp.ret = "None"

\* C14: every principal whose /start, /list, file or callback button was
\* handled has a record in db.users.
UsersCoverSeen == seen \subseteq users

\* C15: /stream/<file_id> and /player/<file_id> answer "File not found" for
\* an id without a record and a URL for an id with a record.
EndpointsResolve ==
    resp.op \in {"stream", "player"} =>
        resp.kind = IF resp.found THEN "url" ELSE "not_found"

\* C16: an entry point starts a database connection, a bot or a web server
\* only if the messaging credentials, the storage credentials, the bucket
\* and the region are all configured.
StartupFailsFast ==
    (boot.db \/ boot.bot \/ boot.web) => ModuleRequired \subseteq env

\* C19: when the URL function returned None, the download_ and mx_ branches
\* build no link button from it and report an error instead.
NullUrlNeverUsed ==
    resp.ret = "None" => (resp.button = "none" /\ resp.kind = "error")

\* the records of db.files stored under attempt a's file id
RecordsOf(a) == {i \in 1..Len(files) : files[i].file_id = a}

\* a step keeps every record already in db.files as it is
RecordsKept ==
    /\ Len(files') >= Len(files)
    /\ \A i \in 1..Len(files) : files'[i] = files[i]

\* a scratch file disappears only in the step that ends its own attempt
ScratchOwn ==
    \A b \in Attempts :
        (scratch[b] /\ ~scratch'[b]) => (pc[b] # "done" /\ pc'[b] = "done")

\* when every attempt is over, db.files holds one record for each attempt
\* whose bytes the store accepted and none for the others
OneRecordPerSuccess ==
    (\A a \in Attempts : pc[a] = "done") =>
        \A a \in Attempts :
            Cardinality(RecordsOf(a)) = IF transfer[a] = "ok" THEN 1 ELSE 0

UploadsKeepRecords == [][RecordsKept]_vars

UploadsKeepScratch == [][ScratchOwn]_vars

\* C21: under every interleaving of handle_file invocations no step
\* overwrites or drops a record another attempt saved, no attempt removes
\* another attempt's scratch file, and at the end db.files holds exactly one
\* record per attempt whose upload succeeded.
UploadsIsolated ==
    /\ []OneRecordPerSuccess
    /\ [][RecordsKept /\ ScratchOwn]_vars

\* C22: the final status of a finished attempt agrees with db.files: it is
\* "Upload failed" or "Error" only if no record of the attempt was saved,
\* and "Upload complete" only if its record was saved.
ResultMatchesStore ==
    \A a \in Attempts :
        pc[a] = "done" =>
            /\ result[a] \in {"failed", "error"} => ~HasFile(files, a)
            /\ result[a] = "complete" => HasFile(files, a)
====
